---- MODULE Spec2Model ----
(***************************************************************************)
(* A model of the Discogs gateway (src/az-function): the shared forwarding *)
(* routine proxy_request, the route handlers that delegate to it, and the   *)
(* two handlers (Releases, DatabaseSearch) that carry their own copy of the *)
(* gate, the retry loop and the status translation.                         *)
(*                                                                          *)
(* One behaviour is one inbound call.  The configuration (the process       *)
(* environment), the inbound request and what the upstream will answer to   *)
(* each attempt are fixed in the initial state; the actions are the steps   *)
(* of the handler's code.                                                   *)
(*                                                                          *)
(* Spec is one call with a logging sink that accepts every record;          *)
(* SpecLogging lets the sink refuse the telemetry record; SpecConcurrent    *)
(* runs several calls in one process; SpecRewrite applies _rewrite alone.   *)
(*                                                                          *)
(* Text values whose characters the code inspects (strip, startswith,       *)
(* isdigit, lower, split) are sequences of tokens; a token stands for one   *)
(* character or for one indivisible run of characters.  None is Python's    *)
(* None, <<>> the empty string.                                             *)
(***************************************************************************)
EXTENDS Integers, Sequences, FiniteSets, TLC

VARIABLES
    env,          \* os.environ: the configuration map
    req,          \* the inbound func.HttpRequest and the handler it is routed to
    upstream,     \* what api.discogs.com does with attempt 1 and attempt 2
    pc,           \* the handler's position
    allow_retry,  \* proxy_request's allow_retry: "None", "True" or "False"
    trace_id,     \* the uuid4 of the call, None before it is generated
    attempt,      \* the loop counter `attempt`
    sent,         \* the upstream requests sent so far, in order
    inflight,     \* upstream requests sent and not yet answered
    waits,        \* the asyncio.sleep calls made, in units of 0.25 s
    resp,         \* the httpx response received, NoResp before
    telemetry,    \* the discogs_proxy_call events logged, in order
    response,     \* the func.HttpResponse returned to the caller, NoResponse before
    trail,        \* the positions the handler has passed, in order
    rw_data,      \* the JSON value handed to a stand-alone run of _rewrite
    rw_host,      \* the Host header of that run
    rw_results,   \* the value after each successive application of _rewrite
    logger_raises,\* whether logger.info raises when the telemetry event is logged
    parked        \* the other calls of the process, each suspended at an await

rewriteVars == <<rw_data, rw_host, rw_results>>

callVars == <<env, req, upstream, pc, allow_retry, trace_id, attempt, sent,
              inflight, waits, resp, telemetry, response, trail>>

hostVars == <<logger_raises, parked>>

vars == <<callVars, rewriteVars, hostVars>>

----------------------------------------------------------------------------
(* Bounds of the model. *)

\* Longest configured / presented key, in tokens.
MaxKeyLen == 2

\* Longest route parameter, in tokens.
MaxParamLen == 2

\* Longest query string of a search, in tokens.
MaxQueryLen == 3

----------------------------------------------------------------------------
(* Text. *)

None == <<"<None>">>

\* Python truthiness of an Optional[str].
Truthy(s) == s # None /\ s # <<>>

IsSpace(c) == c = " "

RECURSIVE LStrip(_)
LStrip(s) == IF s # <<>> /\ IsSpace(Head(s)) THEN LStrip(Tail(s)) ELSE s

RECURSIVE RStrip(_)
RStrip(s) == IF s # <<>> /\ IsSpace(s[Len(s)]) THEN RStrip(SubSeq(s, 1, Len(s) - 1)) ELSE s

\* str.strip()
Strip(s) == RStrip(LStrip(s))

\* str.startswith(p)
StartsWith(s, p) == Len(s) >= Len(p) /\ SubSeq(s, 1, Len(p)) = p

LowerTok(c) == IF c \in {"TRUE", "True"} THEN "true"
               ELSE IF c \in {"FALSE", "False"} THEN "false"
               ELSE IF c = "Releases" THEN "releases"
               ELSE IF c = "Versions" THEN "versions"
               ELSE c

\* str.lower()
Lower(s) == [i \in 1..Len(s) |-> LowerTok(s[i])]

Digits == {"1", "2"}

\* str.isdigit(): non-empty and all characters digits
IsDigit(s) == s # <<>> /\ \A i \in 1..Len(s) : s[i] \in Digits

\* The strings of at most n tokens over alphabet A.
RECURSIVE StringsUpTo(_, _)
StringsUpTo(A, n) ==
    IF n = 0 THEN {<<>>}
    ELSE LET shorter == StringsUpTo(A, n - 1)
         IN shorter \cup {Append(s, c) : s \in shorter, c \in A}

\* The unresolved Key Vault reference prefix, "@Microsoft.KeyVault(".
KV_PREFIX == <<"@Microsoft.KeyVault(">>

----------------------------------------------------------------------------
(* The environment. *)

\* os.getenv(name): None when unset.
GetEnv(name) == env[name]

\* os.getenv(name, default)
GetEnvDefault(name, default) == IF env[name] = None THEN default ELSE env[name]

\* os.getenv(name, "false").lower() == "true"
FlagDefaultFalse(name) == Lower(GetEnvDefault(name, <<"false">>)) = <<"true">>

\* os.getenv(name, "true").lower() == "true"
FlagDefaultTrue(name) == Lower(GetEnvDefault(name, <<"true">>)) = <<"true">>

----------------------------------------------------------------------------
(* The inbound request. *)

\* req.headers.get(name): None when the header is absent.
Header(name) == req.headers[name]

\* req.route_params.get(name)
RouteParam(name) == req.route_params[name]

\* f"{x}" of an Optional[str]
FStr(s) == IF s = None THEN <<"None">> ELSE s

----------------------------------------------------------------------------
(* Caller-facing responses.  A JSON error body is kept as its fields:       *)
(* error and reason are "" when the body has no such field, upstream_status *)
(* is 0, and trace_id and detail are None.  limit, remaining and reset are  *)
(* fields of the rate_limited body only, kept as the text written into the  *)
(* body; they are None in every other response.                             *)

AllowListed == {"Link", "X-Discogs-Ratelimit", "X-Discogs-Ratelimit-Used",
                "X-Discogs-Ratelimit-Remaining", "X-Discogs-Ratelimit-Reset", "ETag"}

\* The allow-list of the Releases and DatabaseSearch handlers: no ETag.
AllowListedInline == AllowListed \ {"ETag"}

ResponseHeaderNames == AllowListed \cup {"X-Trace-Id", "X-Client-Trace-Id", "X-Operation-Hash"}

NoHeaders == [h \in ResponseHeaderNames |-> None]

NoBody == [t |-> "none", v |-> <<>>]

NoResponse ==
    [status |-> 0, error |-> "", reason |-> "", upstream_status |-> 0,
     trace_id |-> None, detail |-> None, limit |-> None, remaining |-> None,
     reset |-> None, headers |-> NoHeaders, mimetype |-> None, body |-> NoBody]

\* func.HttpResponse(status_code=s, mimetype="application/json", body='{"error":e,...}')
ErrorResponse(s, e) ==
    [NoResponse EXCEPT !.status = s, !.error = e, !.mimetype = <<"application/json">>]

\* ... body='{"error":e,"reason":r}' (or "which": the gate's second field)
ReasonResponse(s, e, r) == [ErrorResponse(s, e) EXCEPT !.reason = r]

----------------------------------------------------------------------------
(* The authorization gate. *)

\* _client_key_check with the comparison skipped when no key is presented.
client_key_check_absent_passes ==
    LET provided_raw == Header("x-api-key")
        expected_raw == GetEnv("X_API_KEY")
        disable_check == FlagDefaultFalse("DISABLE_CLIENT_KEY_CHECK")
        provided_key == IF Truthy(provided_raw) THEN Strip(provided_raw) ELSE provided_raw
        expected_key == IF Truthy(expected_raw) THEN Strip(expected_raw) ELSE expected_raw
        ref_unresolved == Truthy(expected_key) /\ StartsWith(expected_key, KV_PREFIX)
        mismatch == /\ Truthy(expected_key)
                    /\ Truthy(provided_key)
                    /\ provided_key # expected_key
                    /\ ~ref_unresolved
                    /\ ~disable_check
    IN IF ~disable_check /\ ~Truthy(expected_key)
       THEN ReasonResponse(503, "server_misconfigured", "x_api_key_missing")
       ELSE IF mismatch
       THEN ReasonResponse(401, "unauthorized", "api_key_mismatch")
       ELSE NoResponse

\* common_proxy._client_key_check: the response to return, or NoResponse for
\* Python's None (proceed).
_client_key_check ==
    LET provided_raw == Header("x-api-key")
        expected_raw == GetEnv("X_API_KEY")
        disable_check == FlagDefaultFalse("DISABLE_CLIENT_KEY_CHECK")
        provided_key == IF Truthy(provided_raw) THEN Strip(provided_raw) ELSE provided_raw
        expected_key == IF Truthy(expected_raw) THEN Strip(expected_raw) ELSE expected_raw
        ref_unresolved == Truthy(expected_key) /\ StartsWith(expected_key, KV_PREFIX)
        mismatch == /\ Truthy(expected_key)
                    /\ provided_key # expected_key
                    /\ ~ref_unresolved
                    /\ ~disable_check
    IN IF ~disable_check /\ ~Truthy(expected_key)
       THEN ReasonResponse(503, "server_misconfigured", "x_api_key_missing")
       ELSE IF mismatch
       THEN ReasonResponse(401, "unauthorized", "api_key_mismatch")
       ELSE NoResponse

\* The gate inlined in Releases.main and DatabaseSearch.main: the same
\* mismatch test, and no test for a missing X_API_KEY.
inline_key_check ==
    LET provided_raw == Header("x-api-key")
        expected_raw == GetEnv("X_API_KEY")
        disable_check == FlagDefaultFalse("DISABLE_CLIENT_KEY_CHECK")
        provided_key == IF Truthy(provided_raw) THEN Strip(provided_raw) ELSE provided_raw
        expected_key == IF Truthy(expected_raw) THEN Strip(expected_raw) ELSE expected_raw
        ref_unresolved == Truthy(expected_key) /\ StartsWith(expected_key, KV_PREFIX)
        mismatch == /\ Truthy(expected_key)
                    /\ provided_key # expected_key
                    /\ ~ref_unresolved
                    /\ ~disable_check
    IN IF mismatch
       THEN ReasonResponse(401, "unauthorized", "api_key_mismatch")
       ELSE NoResponse

\* token_unresolved recognising the bare prefix only, not what starts with it.
token_unresolved_exact == GetEnv("DISCOGS_TOKEN") = KV_PREFIX

\* bool(discogs_token) and discogs_token.startswith("@Microsoft.KeyVault(")
token_unresolved ==
    LET discogs_token == GetEnv("DISCOGS_TOKEN")
    IN Truthy(discogs_token) /\ StartsWith(discogs_token, KV_PREFIX)

\* common_proxy._build_auth_headers: the Authorization header sent upstream,
\* None when DISCOGS_TOKEN is unset or empty.
_build_auth_headers ==
    LET discogs_token == GetEnv("DISCOGS_TOKEN")
    IN IF Truthy(discogs_token) THEN <<"Discogs token=">> \o discogs_token ELSE None

----------------------------------------------------------------------------
(* JSON values and the URL rewrite.  A JSON value is a tagged record: a     *)
(* string [t |-> "str", v |-> text], a number or null (v irrelevant), a     *)
(* list [t |-> "list", v |-> <<values>>], or a dict [t |-> "dict",          *)
(* v |-> <<[k |-> key text, x |-> value], ...>>] in insertion order.        *)
(* [t |-> "raw"] is content that json does not parse.                       *)

JStr(s) == [t |-> "str", v |-> s]
JNum == [t |-> "num", v |-> <<>>]
JNull == [t |-> "null", v |-> <<>>]
JList(xs) == [t |-> "list", v |-> xs]
JDict(kvs) == [t |-> "dict", v |-> kvs]
JRaw == [t |-> "raw", v |-> <<>>]

\* "https://api.discogs.com" and "http://api.discogs.com", as the literals of _rewrite
UPSTREAM_HTTPS == <<"https://", "api.discogs.com">>
UPSTREAM_HTTP == <<"http://", "api.discogs.com">>

\* obj[n:]
DropFirst(s, n) == SubSeq(s, n + 1, Len(s))

\* proxy_base = f"https://{req.headers.get('host')}/api"
ProxyBase(host) == <<"https://">> \o FStr(host) \o <<"/", "api">>

\* RewriteStr without the http:// form.
RewriteStrHttpsOnly(s, proxy_base) ==
    IF StartsWith(s, UPSTREAM_HTTPS \o <<"/">>)
    THEN proxy_base \o DropFirst(s, Len(UPSTREAM_HTTPS))
    ELSE s

\* _rewrite on a str
RewriteStr(s, proxy_base) ==
    IF StartsWith(s, UPSTREAM_HTTPS \o <<"/">>)
    THEN proxy_base \o DropFirst(s, Len(UPSTREAM_HTTPS))
    ELSE IF StartsWith(s, UPSTREAM_HTTP \o <<"/">>)
    THEN proxy_base \o DropFirst(s, Len(UPSTREAM_HTTP))
    ELSE s

\* _rewrite rewriting the keys of a dict as well as its values.
RECURSIVE _rewrite_keys_too(_, _)
_rewrite_keys_too(obj, proxy_base) ==
    IF obj.t = "dict"
    THEN JDict([i \in 1..Len(obj.v) |->
                  [k |-> RewriteStr(obj.v[i].k, proxy_base),
                   x |-> _rewrite_keys_too(obj.v[i].x, proxy_base)]])
    ELSE IF obj.t = "list"
    THEN JList([i \in 1..Len(obj.v) |-> _rewrite_keys_too(obj.v[i], proxy_base)])
    ELSE IF obj.t = "str"
    THEN JStr(RewriteStr(obj.v, proxy_base))
    ELSE obj

\* The closure _rewrite of proxy_request, with its free variable proxy_base.
RECURSIVE _rewrite(_, _)
_rewrite(obj, proxy_base) ==
    IF obj.t = "dict"
    THEN JDict([i \in 1..Len(obj.v) |->
                  [k |-> obj.v[i].k, x |-> _rewrite(obj.v[i].x, proxy_base)]])
    ELSE IF obj.t = "list"
    THEN JList([i \in 1..Len(obj.v) |-> _rewrite(obj.v[i], proxy_base)])
    ELSE IF obj.t = "str"
    THEN JStr(RewriteStr(obj.v, proxy_base))
    ELSE obj

----------------------------------------------------------------------------
(* What the upstream does with one attempt: it answers (kind "response"),   *)
(* or the attempt raises httpx.TimeoutException ("timeout"), another        *)
(* httpx.RequestError ("request_error") or something else ("exception").    *)

UpstreamHeaderNames == AllowListed \cup {"Content-Type"}

NoResp == [kind |-> "none", status |-> 0,
           headers |-> [h \in UpstreamHeaderNames |-> None], content |-> NoBody]

Raises(kind) == [NoResp EXCEPT !.kind = kind]

Answers(status, headers, content) ==
    [kind |-> "response", status |-> status, headers |-> headers, content |-> content]

TransportErrors == {"timeout", "request_error"}

----------------------------------------------------------------------------
(* The response translator. *)

\* The first element of s.split(";")
BeforeSemicolon(s) ==
    IF \E i \in 1..Len(s) : s[i] = ";"
    THEN SubSeq(s, 1, (CHOOSE i \in 1..Len(s) : s[i] = ";" /\ \A j \in 1..(i - 1) : s[j] # ";") - 1)
    ELSE s

\* hdrs of proxy_request: the allow-listed upstream headers that are present
\* and non-empty, the trace id, and the caller's correlation headers.
PropagatedHeaders(r, tid) ==
    LET x_client_trace == Header("X-Client-Trace-Id")
        x_op_hash == Header("X-Operation-Hash")
    IN [h \in ResponseHeaderNames |->
          IF h \in AllowListed THEN (IF Truthy(r.headers[h]) THEN r.headers[h] ELSE None)
          ELSE IF h = "X-Trace-Id" THEN tid
          ELSE IF h = "X-Client-Trace-Id" THEN (IF Truthy(x_client_trace) THEN x_client_trace ELSE None)
          ELSE (IF Truthy(x_op_hash) THEN x_op_hash ELSE None)]

\* hdrs of Releases.main and DatabaseSearch.main
PropagatedHeadersInline(r) ==
    [h \in ResponseHeaderNames |->
       IF h \in AllowListedInline /\ Truthy(r.headers[h]) THEN r.headers[h] ELSE None]

\* One value of str(body).replace("'", '"') for a header value or None: the
\* Python repr with its quotes replaced.  None prints as None, not as null.
PyReprField(v) == IF v = None THEN <<"None">> ELSE <<"\"">> \o v \o <<"\"">>

\* TranslateError without its 5xx row: the upstream status is passed on.
TranslateErrorForwardsServerError(r, tid) ==
    IF r.status = 404
    THEN [ErrorResponse(404, "not_found") EXCEPT !.trace_id = tid]
    ELSE IF r.status = 429
    THEN [ErrorResponse(429, "rate_limited") EXCEPT
            !.trace_id = tid,
            !.limit = PyReprField(r.headers["X-Discogs-Ratelimit"]),
            !.remaining = PyReprField(r.headers["X-Discogs-Ratelimit-Remaining"]),
            !.reset = PyReprField(r.headers["X-Discogs-Ratelimit-Reset"])]
    ELSE [ErrorResponse(r.status, "unexpected_status") EXCEPT
            !.upstream_status = r.status, !.trace_id = tid]

\* The 404 / 429 / 5xx / other rows, shared word for word by the three handlers.
TranslateError(r, tid) ==
    IF r.status = 404
    THEN [ErrorResponse(404, "not_found") EXCEPT !.trace_id = tid]
    ELSE IF r.status = 429
    THEN [ErrorResponse(429, "rate_limited") EXCEPT
            !.trace_id = tid,
            !.limit = PyReprField(r.headers["X-Discogs-Ratelimit"]),
            !.remaining = PyReprField(r.headers["X-Discogs-Ratelimit-Remaining"]),
            !.reset = PyReprField(r.headers["X-Discogs-Ratelimit-Reset"])]
    ELSE IF 500 <= r.status /\ r.status < 600
    THEN [ErrorResponse(502, "upstream_error") EXCEPT
            !.upstream_status = r.status, !.trace_id = tid]
    ELSE [ErrorResponse(r.status, "unexpected_status") EXCEPT
            !.upstream_status = r.status, !.trace_id = tid]

\* TranslateSuccess without the inner try: a body that does not parse falls
\* through to `except Exception` and is answered 500 internal_error.
TranslateSuccessNoFallback(r, hdrs) ==
    LET content_type == IF r.headers["Content-Type"] = None
                        THEN <<"application/json">> ELSE r.headers["Content-Type"]
        mimetype == BeforeSemicolon(content_type)
        do_rewrite == FlagDefaultTrue("REWRITE_UPSTREAM_URLS")
        forwarded == [NoResponse EXCEPT !.status = r.status, !.mimetype = mimetype,
                                        !.body = r.content, !.headers = hdrs]
    IN IF mimetype = <<"application/json">> /\ do_rewrite
       THEN IF r.content.t = "raw" THEN ErrorResponse(500, "internal_error")
            ELSE [forwarded EXCEPT !.body = _rewrite(r.content, ProxyBase(Header("host")))]
       ELSE forwarded

\* The 2xx row of proxy_request.
TranslateSuccess(r, hdrs) ==
    LET content_type == IF r.headers["Content-Type"] = None
                        THEN <<"application/json">> ELSE r.headers["Content-Type"]
        mimetype == BeforeSemicolon(content_type)
        do_rewrite == FlagDefaultTrue("REWRITE_UPSTREAM_URLS")
        forwarded == [NoResponse EXCEPT !.status = r.status, !.mimetype = mimetype,
                                        !.body = r.content, !.headers = hdrs]
    IN IF mimetype = <<"application/json">> /\ do_rewrite /\ r.content.t # "raw"
       THEN [forwarded EXCEPT !.body = _rewrite(r.content, ProxyBase(Header("host")))]
       ELSE forwarded

\* Translate without the 304 row: a 304 falls to the last row.
TranslateWithout304Row(r, tid) ==
    LET hdrs == PropagatedHeaders(r, tid)
    IN IF 200 <= r.status /\ r.status < 300
       THEN TranslateSuccess(r, hdrs)
       ELSE TranslateError(r, tid)

\* proxy_request from `status = resp.status_code` to its return.
Translate(r, tid) ==
    LET hdrs == PropagatedHeaders(r, tid)
    IN IF r.status = 304
       THEN [NoResponse EXCEPT !.status = 304, !.headers = hdrs]
       ELSE IF 200 <= r.status /\ r.status < 300
       THEN TranslateSuccess(r, hdrs)
       ELSE TranslateError(r, tid)

\* Releases.main and DatabaseSearch.main from `status = resp.status_code`.
TranslateInline(r, tid) ==
    IF 200 <= r.status /\ r.status < 300
    THEN [NoResponse EXCEPT !.status = r.status, !.mimetype = <<"application/json">>,
                            !.body = r.content, !.headers = PropagatedHeadersInline(r)]
    ELSE TranslateError(r, tid)

\* str(e) of the exception raised by an attempt
ExceptionText(kind) == <<"str(", kind, ")">>

\* Classify attaching the exception text whatever DEBUG_ERRORS says.
ClassifyAlwaysDetail(kind, tid) ==
    LET classified == IF kind = "timeout" THEN ErrorResponse(504, "timeout")
                      ELSE IF kind = "request_error" THEN ErrorResponse(502, "bad_gateway")
                      ELSE ErrorResponse(500, "internal_error")
    IN [classified EXCEPT !.trace_id = tid, !.detail = ExceptionText(kind)]

\* The three except clauses that end each handler.
Classify(kind, tid) ==
    LET debug_errors == FlagDefaultFalse("DEBUG_ERRORS")
        classified == IF kind = "timeout" THEN ErrorResponse(504, "timeout")
                      ELSE IF kind = "request_error" THEN ErrorResponse(502, "bad_gateway")
                      ELSE ErrorResponse(500, "internal_error")
    IN [classified EXCEPT !.trace_id = tid,
                          !.detail = IF debug_errors THEN ExceptionText(kind) ELSE None]

----------------------------------------------------------------------------
(* The route handlers: parameter validation, method and upstream path. *)

Delegating == {"Wantlist", "PriceSuggestions", "WantlistItemUpsert", "Labels",
               "MarketplaceListingDelete", "MarketplaceListingCreate",
               "CollectionAdd", "Masters", "ArtistReleases"}

\* The handlers with their own gate, retry loop and translation.
Inline == {"Releases", "DatabaseSearch"}

\* "proxy_request" is a direct call of the shared routine with any method
\* and any allow_retry.
Handlers == Delegating \cup Inline \cup {"proxy_request"}

\* NotAnInteger without the isdigit() test.
NotAnIntegerMissingOnly(x) == ~Truthy(x)

\* not x or not x.isdigit()
NotAnInteger(x) == ~Truthy(x) \/ ~IsDigit(x)

\* func.HttpResponse(status_code=400, ..., body='{"error":"<message>"}')
BadRequest(message) == ErrorResponse(400, message)

REQUIRED_FIELDS == <<"release_id", "condition", "price">>

\* f in data, for the parsed body of MarketplaceListingCreate
FieldIn(f, data) ==
    IF data.t = "dict" THEN \E i \in 1..Len(data.v) : data.v[i].k = <<f>>
    ELSE IF data.t = "list" THEN \E i \in 1..Len(data.v) : data.v[i] = JStr(<<f>>)
    ELSE FALSE

\* json.loads(req.get_body() or b"{}")
LoadedBody == IF req.body = NoBody THEN JDict(<<>>) ELSE req.body

\* `f not in data` raises TypeError on a number or null; main catches only
\* json.JSONDecodeError.
CreateRaises == LoadedBody.t \in {"num", "null"}

\* The handler's checks before it calls proxy_request (before its gate, for
\* Releases): the 400 / 404 it returns, or NoResponse when they pass.
Validation(h) ==
    IF h = "Wantlist"
    THEN IF ~Truthy(RouteParam("username")) THEN BadRequest("username is required")
         ELSE NoResponse
    ELSE IF h \in {"PriceSuggestions", "Releases"}
    THEN IF NotAnInteger(RouteParam("release_id")) THEN BadRequest("release_id must be an integer")
         ELSE NoResponse
    ELSE IF h = "WantlistItemUpsert"
    THEN IF ~Truthy(RouteParam("username")) THEN BadRequest("username is required")
         ELSE IF NotAnInteger(RouteParam("release_id")) THEN BadRequest("release_id must be an integer")
         ELSE NoResponse
    ELSE IF h = "CollectionAdd"
    THEN IF ~Truthy(RouteParam("username")) THEN BadRequest("username is required")
         ELSE IF NotAnInteger(RouteParam("folder_id")) THEN BadRequest("folder_id must be an integer")
         ELSE IF NotAnInteger(RouteParam("release_id")) THEN BadRequest("release_id must be an integer")
         ELSE NoResponse
    ELSE IF h = "Labels"
    THEN IF NotAnInteger(RouteParam("label_id")) THEN BadRequest("label_id must be an integer")
         ELSE IF Truthy(RouteParam("sub"))
                 /\ Lower(RouteParam("sub")) \notin {<<"releases">>, <<"sublabels">>}
         THEN ErrorResponse(404, "not_found")
         ELSE NoResponse
    ELSE IF h = "Masters"
    THEN IF NotAnInteger(RouteParam("master_id")) THEN BadRequest("master_id must be an integer")
         ELSE IF Truthy(RouteParam("sub")) /\ Lower(RouteParam("sub")) # <<"versions">>
         THEN ErrorResponse(404, "not_found")
         ELSE NoResponse
    ELSE IF h = "ArtistReleases"
    THEN IF NotAnInteger(RouteParam("artist_id")) THEN BadRequest("artist_id must be an integer")
         ELSE NoResponse
    ELSE IF h = "MarketplaceListingDelete"
    THEN IF NotAnInteger(RouteParam("listing_id")) THEN BadRequest("listing_id must be an integer")
         ELSE NoResponse
    ELSE IF h = "MarketplaceListingCreate"
    THEN IF LoadedBody.t = "raw" THEN BadRequest("invalid_json")
         ELSE IF \E i \in 1..Len(REQUIRED_FIELDS) : ~FieldIn(REQUIRED_FIELDS[i], LoadedBody)
         THEN BadRequest("missing_fields")
         ELSE NoResponse
    ELSE NoResponse

\* The method each handler passes to proxy_request (GET for the inline two).
HandlerMethod(h) ==
    IF h \in {"WantlistItemUpsert"} THEN "PUT"
    ELSE IF h \in {"MarketplaceListingCreate", "CollectionAdd"} THEN "POST"
    ELSE IF h = "MarketplaceListingDelete" THEN "DELETE"
    ELSE "GET"

\* proxy_request's method argument
Method == IF req.handler = "proxy_request" THEN req.method ELSE HandlerMethod(req.handler)

\* method.upper()
Upper(m) == IF m = "get" THEN "GET"
            ELSE IF m = "head" THEN "HEAD"
            ELSE IF m = "post" THEN "POST"
            ELSE m

\* The upstream path each handler builds.
UpstreamPath(h) ==
    IF h = "Wantlist" THEN <<"/users/">> \o RouteParam("username") \o <<"/wants">>
    ELSE IF h = "PriceSuggestions"
    THEN <<"/marketplace/price_suggestions/">> \o RouteParam("release_id")
    ELSE IF h = "WantlistItemUpsert"
    THEN <<"/users/">> \o RouteParam("username") \o <<"/wants/">> \o RouteParam("release_id")
    ELSE IF h = "CollectionAdd"
    THEN <<"/users/">> \o RouteParam("username") \o <<"/collection/folders/">>
         \o RouteParam("folder_id") \o <<"/releases/">> \o RouteParam("release_id")
    ELSE IF h = "Labels"
    THEN <<"/labels/">> \o RouteParam("label_id")
         \o (IF Truthy(RouteParam("sub")) THEN <<"/">> \o Lower(RouteParam("sub")) ELSE <<>>)
    ELSE IF h = "Masters"
    THEN <<"/masters/">> \o RouteParam("master_id")
         \o (IF Truthy(RouteParam("sub")) THEN <<"/versions">> ELSE <<>>)
    ELSE IF h = "ArtistReleases"
    THEN <<"/artists/">> \o RouteParam("artist_id") \o <<"/releases">>
    ELSE IF h = "MarketplaceListingDelete"
    THEN <<"/marketplace/listings/">> \o RouteParam("listing_id")
    ELSE IF h = "MarketplaceListingCreate" THEN <<"/marketplace/listings">>
    ELSE IF h = "Releases" THEN <<"/releases/">> \o RouteParam("release_id")
    ELSE IF h = "DatabaseSearch" THEN <<"/database/search">>
    ELSE req.upstream_path

----------------------------------------------------------------------------
(* The query string. *)

\* The pieces of s between the occurrences of token sep: s.split(sep)
RECURSIVE Split(_, _)
Split(s, sep) ==
    IF \E i \in 1..Len(s) : s[i] = sep
    THEN LET i == CHOOSE i \in 1..Len(s) : s[i] = sep /\ \A j \in 1..(i - 1) : s[j] # sep
         IN <<SubSeq(s, 1, i - 1)>> \o Split(SubSeq(s, i + 1, Len(s)), sep)
    ELSE <<s>>

\* The 22 names of supported_params
supported_params ==
    {<<p>> : p \in {"q", "type", "title", "release_title", "credit", "artist", "anv",
                    "label", "genre", "style", "country", "year", "format", "catno",
                    "barcode", "track", "submitter", "contributor", "page", "per_page",
                    "sort", "sort_order"}}

\* provided_keys looking at the first pair of the query string only.
provided_keys_first_pair ==
    LET pairs == IF req.qs # <<>> THEN Split(req.qs, "&") ELSE <<>>
    IN {Split(pairs[i], "=")[1] : i \in {j \in 1..Len(pairs) : j = 1 /\ pairs[j] # <<>>}}
       \ {<<>>}

\* provided_keys of DatabaseSearch.main, from qs = the text after the first "?"
provided_keys ==
    LET pairs == IF req.qs # <<>> THEN Split(req.qs, "&") ELSE <<>>
    IN {Split(pairs[i], "=")[1] : i \in {j \in 1..Len(pairs) : pairs[j] # <<>>}} \ {<<>>}

\* req.params for a URL whose query string is qs: the key=value pairs with
\* a key, as a map from key to value.
ParamsOf(qs) ==
    LET pairs == IF qs = <<>> THEN <<>> ELSE Split(qs, "&")
        named == {i \in 1..Len(pairs) :
                    Len(pairs[i]) >= 2 /\ pairs[i][1] # "=" /\ pairs[i][2] = "="}
    IN [k \in {pairs[i][1] : i \in named} |->
          LET i == CHOOSE i \in named : pairs[i][1] = k
          IN SubSeq(pairs[i], 3, Len(pairs[i]))]

\* The alias pass of proxy_request on query = dict(req.params)
QueryAlias(query) ==
    IF "query" \in DOMAIN query /\ "q" \notin DOMAIN query
    THEN [k \in (DOMAIN query \ {"query"}) \cup {"q"} |->
            IF k = "q" THEN query["query"] ELSE query[k]]
    ELSE query

----------------------------------------------------------------------------
(* The steps of a call. *)

\* str(uuid.uuid4())
NewTraceId == <<"uuid4">>

EmptyQuery == [k \in {} |-> <<>>]

\* The request one attempt sends: client.request(method.upper(), url,
\* headers=headers, params=query) in proxy_request, client.get(url,
\* headers=headers) in the inline handlers, whose url carries the raw query
\* string (DatabaseSearch) or none (Releases).
UpstreamRequest ==
    [method |-> IF req.handler \in Inline THEN "GET" ELSE Upper(Method),
     path |-> UpstreamPath(req.handler),
     authorization |-> _build_auth_headers,
     params |-> IF req.handler \in Inline THEN EmptyQuery ELSE QueryAlias(req.params),
     qs |-> IF req.handler = "DatabaseSearch" THEN req.qs ELSE <<>>]

\* RetryEligible taking every idempotent HTTP method for retriable.
RetryEligibleIdempotent(m) == Upper(m) \in {"GET", "HEAD", "PUT", "DELETE"}

\* method.upper() in ("GET", "HEAD"): the default of allow_retry
RetryEligible(m) == Upper(m) \in {"GET", "HEAD"}

\* Backoff counting the attempt about to start instead of the one that failed.
BackoffNextAttempt(n) == n + 1

\* backoff = 0.25 * attempt, in units of 0.25 s
Backoff(n) == n

\* GivesUp with the attempt cap off by one: no second attempt.
GivesUpAtOnce ==
    IF req.handler \in Inline THEN attempt >= 1
    ELSE allow_retry # "True" \/ attempt >= 1

\* `not allow_retry or attempt >= 2` of proxy_request, `attempt >= 2` of the
\* inline handlers: the transport error is re-raised instead of retried.
GivesUp ==
    IF req.handler \in Inline THEN attempt >= 2
    ELSE allow_retry # "True" \/ attempt >= 2

Return(r) == /\ response' = r
             /\ pc' = "done"

\* A route handler's parameter checks (Releases: main lines 14-16; the
\* delegating handlers: everything before `await proxy_request`).
ValidateParams ==
    /\ pc = "start"
    /\ trail' = Append(trail, pc)
    /\ IF req.handler = "MarketplaceListingCreate" /\ CreateRaises
       THEN pc' = "fault" /\ UNCHANGED response
       ELSE IF Validation(req.handler) # NoResponse
       THEN Return(Validation(req.handler))
       ELSE /\ pc' = IF req.handler = "PriceSuggestions" THEN "precheck" ELSE "gate"
            /\ UNCHANGED response
    /\ UNCHANGED <<rewriteVars, hostVars, env, req, upstream, allow_retry, trace_id, attempt, sent, inflight,
                   waits, resp, telemetry>>

\* PriceSuggestions.main lines 15-19
TokenPreCheck ==
    /\ pc = "precheck"
    /\ trail' = Append(trail, pc)
    /\ IF ~Truthy(GetEnv("DISCOGS_TOKEN"))
       THEN Return(ReasonResponse(401, "unauthorized", "discogs_token_missing"))
       ELSE IF StartsWith(GetEnv("DISCOGS_TOKEN"), KV_PREFIX)
       THEN Return(ReasonResponse(503, "secrets_unresolved", "DISCOGS_TOKEN"))
       ELSE pc' = "gate" /\ UNCHANGED response
    /\ UNCHANGED <<rewriteVars, hostVars, env, req, upstream, allow_retry, trace_id, attempt, sent, inflight,
                   waits, resp, telemetry>>

\* proxy_request lines 59-61
ClientKeyCheck ==
    /\ pc = "gate"
    /\ trail' = Append(trail, pc)
    /\ req.handler \notin Inline
    /\ IF _client_key_check # NoResponse
       THEN Return(_client_key_check)
       ELSE pc' = "token" /\ UNCHANGED response
    /\ UNCHANGED <<rewriteVars, hostVars, env, req, upstream, allow_retry, trace_id, attempt, sent, inflight,
                   waits, resp, telemetry>>

\* Releases.main lines 18-39, DatabaseSearch.main lines 14-35
InlineKeyCheck ==
    /\ pc = "gate"
    /\ trail' = Append(trail, pc)
    /\ req.handler \in Inline
    /\ IF inline_key_check # NoResponse
       THEN Return(inline_key_check)
       ELSE pc' = "token" /\ UNCHANGED response
    /\ UNCHANGED <<rewriteVars, hostVars, env, req, upstream, allow_retry, trace_id, attempt, sent, inflight,
                   waits, resp, telemetry>>

\* proxy_request lines 63-66, Releases.main lines 41-47, DatabaseSearch.main
\* lines 37-43
TokenCheck ==
    /\ pc = "token"
    /\ trail' = Append(trail, pc)
    /\ IF token_unresolved
       THEN Return(ReasonResponse(503, "secrets_unresolved", "DISCOGS_TOKEN"))
       ELSE /\ pc' = IF req.handler = "DatabaseSearch" THEN "params" ELSE "build"
            /\ UNCHANGED response
    /\ UNCHANGED <<rewriteVars, hostVars, env, req, upstream, allow_retry, trace_id, attempt, sent, inflight,
                   waits, resp, telemetry>>

\* DatabaseSearch.main lines 48-69
SearchParamCheck ==
    /\ pc = "params"
    /\ trail' = Append(trail, pc)
    /\ IF provided_keys \cap supported_params = {}
       THEN /\ Return(ReasonResponse(400, "invalid_request", "no_supported_search_params"))
            /\ UNCHANGED trace_id
       ELSE /\ trace_id' = NewTraceId
            /\ pc' = "loop"
            /\ UNCHANGED response
    /\ UNCHANGED <<rewriteVars, hostVars, env, req, upstream, allow_retry, attempt, sent, inflight, waits,
                   resp, telemetry>>

\* proxy_request lines 68-104 (Releases.main lines 48-56): the headers, the
\* query, the retry flag and the trace id.
BuildCall ==
    /\ pc = "build"
    /\ trail' = Append(trail, pc)
    /\ allow_retry' = IF req.handler \in Inline THEN allow_retry
                      ELSE IF allow_retry = "None"
                      THEN (IF RetryEligible(Method) THEN "True" ELSE "False")
                      ELSE allow_retry
    /\ trace_id' = NewTraceId
    /\ pc' = "loop"
    /\ UNCHANGED <<rewriteVars, hostVars, env, req, upstream, attempt, sent, inflight, waits, resp, telemetry,
                   response>>

\* attempt += 1 and the request leaves (asyncio.to_thread(_do_sync)).
IssueAttempt ==
    /\ pc = "loop"
    /\ trail' = Append(trail, pc)
    /\ attempt' = attempt + 1
    /\ sent' = Append(sent, UpstreamRequest)
    /\ inflight' = inflight + 1
    /\ pc' = "inflight"
    /\ UNCHANGED <<rewriteVars, hostVars, env, req, upstream, allow_retry, trace_id, waits, resp, telemetry,
                   response>>

\* AfterResponse sending a 5xx answer round the loop again.
AfterResponseRetriesServerError(r) ==
    IF r.status >= 500 /\ r.status < 600 /\ attempt < 2 THEN "loop" ELSE "telemetry"

\* AfterResponse sending the first response of any status round the loop.
AfterResponseRetriesOnce(r) == IF attempt < 2 THEN "loop" ELSE "telemetry"

\* AfterResponse going straight to the translation, past the telemetry event.
AfterResponseSkipsTelemetry(r) == "translate"

\* `break`: whatever its status, a response leaves the loop.
AfterResponse(r) == "telemetry"

\* The upstream answers: resp is bound and the loop is left by `break`.
UpstreamAnswers ==
    /\ pc = "inflight"
    /\ trail' = Append(trail, pc)
    /\ upstream[attempt].kind = "response"
    /\ resp' = upstream[attempt]
    /\ inflight' = inflight - 1
    /\ pc' = AfterResponse(upstream[attempt])
    /\ UNCHANGED <<rewriteVars, hostVars, env, req, upstream, allow_retry, trace_id, attempt, sent, waits,
                   telemetry, response>>

\* Handled without the final `except Exception` clause.
HandledTransportOnly(kind) == kind \in {"timeout", "request_error"}

\* The except clauses that end each handler catch httpx.TimeoutException,
\* httpx.RequestError and, last, Exception: whatever an attempt raises.
Handled(kind) == kind \in {"timeout", "request_error", "exception"}

\* The attempt raises.  A transport error is retried after the backoff sleep
\* or re-raised; whatever leaves the loop is classified by the except clauses.
AttemptRaises ==
    /\ pc = "inflight"
    /\ trail' = Append(trail, pc)
    /\ upstream[attempt].kind # "response"
    /\ inflight' = inflight - 1
    /\ IF upstream[attempt].kind \in TransportErrors /\ ~GivesUp
       THEN /\ waits' = Append(waits, Backoff(attempt))
            /\ pc' = "sleep"
            /\ UNCHANGED response
       ELSE IF Handled(upstream[attempt].kind)
       THEN /\ Return(Classify(upstream[attempt].kind, trace_id))
            /\ UNCHANGED waits
       ELSE /\ pc' = "fault"
            /\ UNCHANGED <<waits, response>>
    /\ UNCHANGED <<rewriteVars, hostVars, env, req, upstream, allow_retry, trace_id, attempt, sent, resp,
                   telemetry>>

\* await asyncio.sleep(backoff) returns.
BackoffElapses ==
    /\ pc = "sleep"
    /\ trail' = Append(trail, pc)
    /\ pc' = "loop"
    /\ UNCHANGED <<rewriteVars, hostVars, env, req, upstream, allow_retry, trace_id, attempt, sent, inflight,
                   waits, resp, telemetry, response>>

\* logger.info("discogs_proxy: " + ...): one discogs_proxy_call event.  The
\* statement stands directly in the outer try, so what it raises is answered
\* by the last except clause.
EmitTelemetry ==
    /\ pc = "telemetry"
    /\ trail' = Append(trail, pc)
    /\ IF logger_raises
       THEN /\ Return(Classify("logging", trace_id))
            /\ UNCHANGED telemetry
       ELSE /\ telemetry' = Append(telemetry, [status |-> resp.status, trace_id |-> trace_id])
            /\ pc' = "translate"
            /\ UNCHANGED response
    /\ UNCHANGED <<rewriteVars, hostVars, env, req, upstream, allow_retry, trace_id, attempt, sent, inflight,
                   waits, resp>>

\* The status translation and the return.
TranslateResponse ==
    /\ pc = "translate"
    /\ trail' = Append(trail, pc)
    /\ Return(IF req.handler \in Inline THEN TranslateInline(resp, trace_id)
              ELSE Translate(resp, trace_id))
    /\ UNCHANGED <<rewriteVars, hostVars, env, req, upstream, allow_retry, trace_id, attempt, sent, inflight,
                   waits, resp, telemetry>>

Next ==
    \/ ValidateParams
    \/ TokenPreCheck
    \/ ClientKeyCheck
    \/ InlineKeyCheck
    \/ TokenCheck
    \/ SearchParamCheck
    \/ BuildCall
    \/ IssueAttempt
    \/ UpstreamAnswers
    \/ AttemptRaises
    \/ BackoffElapses
    \/ EmitTelemetry
    \/ TranslateResponse

----------------------------------------------------------------------------
(* The inputs of a call: configuration, request, upstream behaviour.  The   *)
(* initial states are the union of five families, each of which varies some *)
(* of the inputs over all their values and keeps the others at a default.   *)

EnvOf(key, disable, token, debug, rewrite) ==
    [X_API_KEY |-> key, DISABLE_CLIENT_KEY_CHECK |-> disable, DISCOGS_TOKEN |-> token,
     DEBUG_ERRORS |-> debug, REWRITE_UPSTREAM_URLS |-> rewrite]

HeadersOf(key, host, client_trace, op_hash) ==
    ("x-api-key" :> key) @@ ("host" :> host) @@ ("X-Client-Trace-Id" :> client_trace)
    @@ ("X-Operation-Hash" :> op_hash)

RouteParamNames == {"release_id", "username", "folder_id", "listing_id", "label_id",
                    "master_id", "artist_id", "sub"}

\* Route parameters that pass every handler's validation.
GoodParams == [n \in RouteParamNames |->
                 IF n = "username" THEN <<"u">> ELSE IF n = "sub" THEN None ELSE <<"1">>]

GoodBody == JDict(<<[k |-> <<"release_id">>, x |-> JNum], [k |-> <<"condition">>, x |-> JStr(<<"a">>)],
                    [k |-> <<"price">>, x |-> JNum]>>)

BaseReq ==
    [handler |-> "proxy_request", method |-> "GET", allow_retry |-> "None",
     upstream_path |-> <<"/artists/1">>,
     headers |-> HeadersOf(<<"a">>, <<"gw.example">>, None, None),
     route_params |-> GoodParams,
     params |-> ("q" :> <<"x">>), qs |-> <<"q", "=", "x">>,
     body |-> GoodBody]

BaseEnv == EnvOf(<<"a">>, None, <<"t">>, None, None)

FlagValues == {None, <<"true">>, <<"True">>, <<"false">>}

KeyAlphabet == {" ", "a", "@Microsoft.KeyVault("}
ConfiguredKeys == StringsUpTo(KeyAlphabet, MaxKeyLen) \cup {None}
PresentedKeys == StringsUpTo({" ", "a"}, MaxKeyLen) \cup {None, KV_PREFIX \o <<"a">>}
ConfiguredTokens == {None, <<>>, <<"t">>, KV_PREFIX \o <<"t">>, <<" ">> \o KV_PREFIX}

UpstreamHeaders(link, limit, used, remaining, reset, etag, content_type) ==
    ("Link" :> link) @@ ("X-Discogs-Ratelimit" :> limit)
    @@ ("X-Discogs-Ratelimit-Used" :> used) @@ ("X-Discogs-Ratelimit-Remaining" :> remaining)
    @@ ("X-Discogs-Ratelimit-Reset" :> reset) @@ ("ETag" :> etag)
    @@ ("Content-Type" :> content_type)

PlainHeaders == UpstreamHeaders(None, <<"60">>, <<"1">>, <<"59">>, <<"30">>, None, None)

ReleaseUrl == UPSTREAM_HTTPS \o <<"/", "releases", "/", "1">>

PlainContent == JDict(<<[k |-> <<"id">>, x |-> JNum], [k |-> <<"resource_url">>, x |-> JStr(ReleaseUrl)]>>)

Ok200 == Answers(200, PlainHeaders, PlainContent)

\* Every handler, reached with parameters that pass its validation.
ValidCalls ==
    {[BaseReq EXCEPT !.handler = h] : h \in Handlers \ {"proxy_request"}}
    \cup {[BaseReq EXCEPT !.method = m, !.allow_retry = a] :
            m \in {"GET", "HEAD", "POST", "PUT", "PATCH", "DELETE", "OPTIONS", "get"},
            a \in {"None", "True", "False"}}

\* The state in which a handler is entered with configuration e, request r
\* and upstream behaviour u.
Start(e, r, u) ==
    /\ env = e
    /\ req = r
    /\ upstream = u
    /\ allow_retry = r.allow_retry
    /\ pc = IF r.handler \in {"proxy_request", "DatabaseSearch"} THEN "gate" ELSE "start"
    /\ trace_id = None
    /\ attempt = 0
    /\ sent = <<>>
    /\ inflight = 0
    /\ waits = <<>>
    /\ resp = NoResp
    /\ telemetry = <<>>
    /\ response = NoResponse
    /\ trail = <<>>

\* Family 1, the gate: every configured key against every presented key.
GateCalls ==
    \E key \in ConfiguredKeys, presented \in PresentedKeys, disable \in FlagValues, token \in {<<"t">>, KV_PREFIX \o <<"t">>}, h \in {"proxy_request", "Releases", "DatabaseSearch", "CollectionAdd"} :
        Start(EnvOf(key, disable, token, None, None),
              [BaseReq EXCEPT !.handler = h,
              !.headers = HeadersOf(presented, <<"gw.example">>, None, None)],
              <<Ok200, Ok200>>)


\* Family 2, the routes: every handler with every value of its parameters.
ParamValues == StringsUpTo({"1", "a"}, MaxParamLen) \cup {None}
Usernames == {None, <<>>, <<"u">>}
Subs == {None, <<>>, <<"releases">>, <<"Releases">>, <<"sublabels">>, <<"versions">>,
         <<"Versions">>, <<"x">>}
Bodies == {NoBody, JRaw, JNum, JNull, JDict(<<>>), GoodBody, JList(<<>>),
           JDict(<<[k |-> <<"release_id">>, x |-> JNum], [k |-> <<"price">>, x |-> JNum]>>),
           JList(<<JStr(<<"release_id">>), JStr(<<"condition">>), JStr(<<"price">>)>>)}
QueryStrings == StringsUpTo({"q", "foo", "=", "&"}, MaxQueryLen)
                \cup {<<"query", "=", "x">>, <<"foo", "=", "x", "&", "page", "=", "2">>}

RouteRequests ==
    {[BaseReq EXCEPT !.handler = "Wantlist", !.route_params["username"] = u] : u \in Usernames}
    \cup {[BaseReq EXCEPT !.handler = h, !.route_params["release_id"] = r] :
            h \in {"PriceSuggestions", "Releases"}, r \in ParamValues}
    \cup {[BaseReq EXCEPT !.handler = "WantlistItemUpsert", !.route_params["username"] = u,
                          !.route_params["release_id"] = r] : u \in Usernames, r \in ParamValues}
    \cup {[BaseReq EXCEPT !.handler = "CollectionAdd", !.route_params["username"] = u,
                          !.route_params["folder_id"] = f, !.route_params["release_id"] = r] :
            u \in Usernames, f \in ParamValues, r \in ParamValues}
    \cup {[BaseReq EXCEPT !.handler = "Labels", !.route_params["label_id"] = i,
                          !.route_params["sub"] = sub] : i \in ParamValues, sub \in Subs}
    \cup {[BaseReq EXCEPT !.handler = "Masters", !.route_params["master_id"] = i,
                          !.route_params["sub"] = sub] : i \in ParamValues, sub \in Subs}
    \cup {[BaseReq EXCEPT !.handler = "ArtistReleases", !.route_params["artist_id"] = i] :
            i \in ParamValues}
    \cup {[BaseReq EXCEPT !.handler = "MarketplaceListingDelete",
                          !.route_params["listing_id"] = i] : i \in ParamValues}
    \cup {[BaseReq EXCEPT !.handler = "MarketplaceListingCreate", !.body = b] : b \in Bodies}
    \cup {[BaseReq EXCEPT !.handler = "DatabaseSearch", !.qs = qs, !.params = ParamsOf(qs)] :
            qs \in QueryStrings}

RouteCalls ==
    \E key \in {None, <<"a">>}, token \in {None, <<"t">>, KV_PREFIX \o <<"t">>}, presented \in {None, <<"a">>}, r \in RouteRequests :
        Start(EnvOf(key, None, token, None, None),
              [r EXCEPT !.headers["x-api-key"] = presented],
              <<Ok200, Ok200>>)

\* Family 3, the retries: every method and allow_retry, and every pair of
\* outcomes of the two attempts.
AttemptOutcomes ==
    {Raises("timeout"), Raises("request_error"), Raises("exception"), Ok200,
     Answers(500, PlainHeaders, PlainContent), Answers(429, PlainHeaders, PlainContent)}

RetryCalls ==
    \E debug \in FlagValues, r \in ValidCalls, o1 \in AttemptOutcomes, o2 \in AttemptOutcomes :
        Start(EnvOf(<<"a">>, None, <<"t">>, debug, None),
              r,
              <<o1, o2>>)

\* Family 4, the translator: every status with every set of upstream headers,
\* as the answer to the first attempt or to the retry.
Statuses == {199, 200, 204, 299, 300, 304, 404, 429, 499, 500, 503, 599, 600}

HeaderSets ==
    {UpstreamHeaders(other[1], limit, other[2], remaining, reset, other[3], None) :
        limit \in {None, <<"60">>}, remaining \in {None, <<"59">>}, reset \in {None, <<"30">>},
        other \in {<<None, None, None>>, <<<<"<next>">>, <<"1">>, <<"W/1">>>>}}
    \cup {UpstreamHeaders(<<>>, <<>>, <<>>, <<>>, <<>>, <<>>, <<>>)}

StatusCalls ==
    \E h \in {"proxy_request", "CollectionAdd", "Releases", "DatabaseSearch"}, corr \in {<<None, None>>, <<<<"c1">>, <<"h1">>>>, <<<<>>, None>>}, status \in Statuses, headers \in HeaderSets, retried \in BOOLEAN :
        Start(BaseEnv,
              [BaseReq EXCEPT !.handler = h, !.headers["X-Client-Trace-Id"] = corr[1],
              !.headers["X-Operation-Hash"] = corr[2]],
              <<IF retried THEN Raises("timeout")
              ELSE Answers(status, headers, PlainContent),
              Answers(status, headers, PlainContent)>>)

\* Family 5, the bodies: every content type and content under every setting
\* of the rewrite flag and every Host header.
ContentTypes == {None, <<"application/json">>, <<"application/json", ";", "charset=utf-8">>,
                 <<"text/html">>}
Hosts == {None, <<"gw.example">>, <<"api.discogs.com">>}
Contents ==
    {JRaw, JNull, PlainContent, JStr(ReleaseUrl), JStr(<<"/">>),
     JList(<<JStr(UPSTREAM_HTTP \o <<"/">>), JNum, JStr(UPSTREAM_HTTPS)>>),
     JDict(<<[k |-> ReleaseUrl, x |-> JList(<<PlainContent>>)]>>),
     JList(<<JList(<<JStr(UPSTREAM_HTTP \o <<"/", "x">>), JNull>>),
             JStr(<<"x">> \o ReleaseUrl), JStr(<<"https://", "x", "/">>)>>),
     JDict(<<[k |-> <<"a">>, x |-> JStr(<<"x">>)],
             [k |-> <<"b">>, x |-> JDict(<<[k |-> UPSTREAM_HTTP \o <<"/">>, x |-> JStr(ReleaseUrl)]>>)],
             [k |-> <<"c">>, x |-> JNum]>>)}

BodyCalls ==
    \E rewrite \in FlagValues, h \in {"proxy_request", "Releases"}, host \in Hosts, status \in {200, 204}, ct \in ContentTypes, content \in Contents :
        Start(EnvOf(<<"a">>, None, <<"t">>, None, rewrite),
              [BaseReq EXCEPT !.handler = h, !.headers["host"] = host],
              <<Answers(status, [PlainHeaders EXCEPT !["Content-Type"] = ct], content),
              Ok200>>)

\* Family 6, the query: every combination of `q` and its alias `query` in
\* the inbound query, as req.params holds it and as the URL spells it.
QueryInputs ==
    {<<EmptyQuery, <<>>>>,
     <<"q" :> <<"x">>, <<"q", "=", "x">>>>,
     <<"query" :> <<"x">>, <<"query", "=", "x">>>>,
     <<("q" :> <<"x">>) @@ ("query" :> <<"y">>), <<"q", "=", "x", "&", "query", "=", "y">>>>,
     <<("q" :> <<"x">>) @@ ("query" :> <<"y">>), <<"query", "=", "y", "&", "q", "=", "x">>>>,
     <<("query" :> <<"x">>) @@ ("page" :> <<"2">>), <<"query", "=", "x", "&", "page", "=", "2">>>>,
     <<("foo" :> <<"x">>) @@ ("page" :> <<"2">>), <<"foo", "=", "x", "&", "page", "=", "2">>>>}

QueryCalls ==
    \E h \in {"proxy_request", "ArtistReleases", "Wantlist", "DatabaseSearch"}, q \in QueryInputs, retried \in BOOLEAN :
        Start(BaseEnv,
              [BaseReq EXCEPT !.handler = h, !.params = q[1], !.qs = q[2]],
              <<IF retried THEN Raises("timeout") ELSE Ok200, Ok200>>)

\* No stand-alone run of _rewrite.
NoRewriteRun ==
    /\ rw_data = NoBody
    /\ rw_host = None
    /\ rw_results = <<>>

\* The logging sink accepts every record.
LoggerWorks == logger_raises = FALSE

\* The call is the only one the process is handling.
NoOtherCalls == parked = <<>>

Init ==
    /\ GateCalls \/ RouteCalls \/ RetryCalls \/ StatusCalls \/ BodyCalls \/ QueryCalls
    /\ NoRewriteRun
    /\ LoggerWorks
    /\ NoOtherCalls

Spec == Init /\ [][Next]_vars

\* The same under the scheduling of the host: a handler that can take a step
\* takes it, and an attempt in flight completes or times out.
SpecFair == Spec /\ WF_vars(Next)

----------------------------------------------------------------------------
(* The calls of Spec with a logging sink that may refuse the telemetry      *)
(* record: logger.info raises (a filter or a handler of the host's logging  *)
(* configuration that raises), or it returns.                               *)

InitLogging ==
    /\ RetryCalls \/ StatusCalls \/ BodyCalls
    /\ NoRewriteRun
    /\ logger_raises \in BOOLEAN
    /\ NoOtherCalls

SpecLogging == InitLogging /\ [][Next]_vars

----------------------------------------------------------------------------
(* Several calls in one worker process.  Each `async def main` is a         *)
(* coroutine of the host's event loop: it runs until it awaits              *)
(* (asyncio.to_thread for an attempt, asyncio.sleep for the backoff) or     *)
(* returns, and only then does another call run.  The variables of the      *)
(* running call are the call variables above; the other calls are parked    *)
(* with theirs.  The environment is the process's and is shared.            *)

\* Calls handled by the process at the same time.
MaxCalls == 2

\* The local variables of the running call.
Locals ==
    [req |-> req, upstream |-> upstream, pc |-> pc, allow_retry |-> allow_retry,
     trace_id |-> trace_id, attempt |-> attempt, sent |-> sent, inflight |-> inflight,
     waits |-> waits, resp |-> resp, telemetry |-> telemetry, response |-> response,
     trail |-> trail]

\* The local variables of a call with request r and upstream behaviour u
\* whose handler has not yet run.
Entered(r, u) ==
    [req |-> r, upstream |-> u,
     pc |-> IF r.handler \in {"proxy_request", "DatabaseSearch"} THEN "gate" ELSE "start",
     allow_retry |-> r.allow_retry, trace_id |-> None, attempt |-> 0, sent |-> <<>>,
     inflight |-> 0, waits |-> <<>>, resp |-> NoResp, telemetry |-> <<>>,
     response |-> NoResponse, trail |-> <<>>]

\* The running coroutine is at an await, or has returned or raised.
Suspended == pc \in {"inflight", "sleep", "done", "fault"}

\* The event loop resumes one of the other calls.
Switch ==
    /\ Suspended
    /\ \E i \in 1..Len(parked) :
          /\ parked' = [parked EXCEPT ![i] = Locals]
          /\ req' = parked[i].req
          /\ upstream' = parked[i].upstream
          /\ pc' = parked[i].pc
          /\ allow_retry' = parked[i].allow_retry
          /\ trace_id' = parked[i].trace_id
          /\ attempt' = parked[i].attempt
          /\ sent' = parked[i].sent
          /\ inflight' = parked[i].inflight
          /\ waits' = parked[i].waits
          /\ resp' = parked[i].resp
          /\ telemetry' = parked[i].telemetry
          /\ response' = parked[i].response
          /\ trail' = parked[i].trail
    /\ UNCHANGED <<rewriteVars, logger_raises, env>>

\* The calls that run side by side: retried and not retried, through
\* proxy_request and through the handlers with a loop of their own.
CallMix ==
    {<<BaseReq, <<Raises("timeout"), Ok200>>>>,
     <<[BaseReq EXCEPT !.method = "POST"], <<Raises("request_error"), Ok200>>>>,
     <<[BaseReq EXCEPT !.handler = "PriceSuggestions"], <<Raises("timeout"), Raises("timeout")>>>>,
     <<[BaseReq EXCEPT !.handler = "DatabaseSearch"],
       <<Raises("request_error"), Answers(500, PlainHeaders, PlainContent)>>>>,
     <<[BaseReq EXCEPT !.handler = "Releases"], <<Ok200, Ok200>>>>,
     <<[BaseReq EXCEPT !.handler = "CollectionAdd"],
       <<Answers(429, PlainHeaders, PlainContent), Ok200>>>>}

InitConcurrent ==
    /\ \E c \in CallMix, others \in [1..(MaxCalls - 1) -> CallMix] :
          /\ Start(BaseEnv, c[1], c[2])
          /\ parked = [i \in 1..(MaxCalls - 1) |-> Entered(others[i][1], others[i][2])]
    /\ NoRewriteRun
    /\ LoggerWorks

NextConcurrent == Next \/ Switch

SpecConcurrent == InitConcurrent /\ [][NextConcurrent]_vars

----------------------------------------------------------------------------
(* _rewrite on its own: a JSON value and a Host header are drawn from       *)
(* bounded sets and _rewrite is applied to the value again and again.       *)

MaxUrlLen == 3
MaxDepth == 1
MaxPasses == 2

\* The pieces of the strings handed to _rewrite.
UrlAlphabet == {"https://", "http://", "api.discogs.com", "/", "x"}
UrlStrings == StringsUpTo(UrlAlphabet, MaxUrlLen)

\* Second elements of the two-element lists.
Siblings == {JNum, JStr(ReleaseUrl), JStr(UPSTREAM_HTTP \o <<"/">>)}

\* The JSON values of nesting depth at most d.
RECURSIVE Trees(_)
Trees(d) ==
    IF d = 0 THEN {JStr(u) : u \in UrlStrings} \cup {JNum, JNull}
    ELSE LET inner == Trees(d - 1)
         IN inner
            \cup {JList(<<x>>) : x \in inner}
            \cup {JList(<<x, y>>) : x \in inner, y \in Siblings}
            \cup {JDict(<<[k |-> ReleaseUrl, x |-> x]>>) : x \in inner}

RewriteHosts ==
    {None, <<"gw.example">>, <<"api.discogs.com">>, <<"api.discogs.com", "/", "x">>}

InitRewrite ==
    /\ Start(BaseEnv, BaseReq, <<Ok200, Ok200>>)
    /\ rw_data \in Trees(MaxDepth)
    /\ rw_host \in RewriteHosts
    /\ rw_results = <<>>
    /\ LoggerWorks
    /\ NoOtherCalls

\* data = _rewrite(data), on the value the previous application returned.
ApplyRewrite ==
    /\ Len(rw_results) < MaxPasses
    /\ rw_results' =
          Append(rw_results,
                 _rewrite(IF rw_results = <<>> THEN rw_data
                          ELSE rw_results[Len(rw_results)],
                          ProxyBase(rw_host)))
    /\ UNCHANGED <<callVars, hostVars, rw_data, rw_host>>

NextRewrite == ApplyRewrite

SpecRewrite == InitRewrite /\ [][NextRewrite]_vars

----------------------------------------------------------------------------
(* Vocabulary of the properties. *)

\* The handler has passed position p.
Passed(p) == \E i \in 1..Len(trail) : trail[i] = p

\* The call has reached proxy_request (its first statement is the gate).
ReachedProxyRequest == req.handler \notin Inline /\ Passed("gate")

\* Key checking is enabled: DISABLE_CLIENT_KEY_CHECK is not "true" in any case.
CheckingEnabled ==
    env.DISABLE_CLIENT_KEY_CHECK = None \/ Lower(env.DISABLE_CLIENT_KEY_CHECK) # <<"true">>

\* X_API_KEY is absent or blank.
NoExpectedKey == env.X_API_KEY = None \/ Strip(env.X_API_KEY) = <<>>

\* X_API_KEY is an unresolved secret reference.
ExpectedKeyUnresolved ==
    env.X_API_KEY # None /\ StartsWith(Strip(env.X_API_KEY), KV_PREFIX)

\* DISCOGS_TOKEN is an unresolved secret reference.
TokenUnresolved == env.DISCOGS_TOKEN # None /\ StartsWith(env.DISCOGS_TOKEN, KV_PREFIX)

\* The presented x-api-key is absent or differs, trimmed, from the trimmed X_API_KEY.
PresentedKeyWrong ==
    req.headers["x-api-key"] = None
    \/ Strip(req.headers["x-api-key"]) # Strip(env.X_API_KEY)

Is401Mismatch ==
    /\ response.status = 401
    /\ response.error = "unauthorized"
    /\ response.reason = "api_key_mismatch"

Is503KeyMissing ==
    /\ response.status = 503
    /\ response.error = "server_misconfigured"
    /\ response.reason = "x_api_key_missing"

Is503SecretsUnresolved ==
    /\ response.status = 503
    /\ response.error = "secrets_unresolved"

----------------------------------------------------------------------------
\* The case of C1: proxy_request is entered with checking on, a usable
\* X_API_KEY and a wrong presented key.
C1_Case ==
    /\ req.handler \notin Inline
    /\ CheckingEnabled
    /\ ~NoExpectedKey
    /\ ~ExpectedKeyUnresolved
    /\ PresentedKeyWrong

(* C1: in a call that reaches proxy_request with key checking enabled and a *)
(* resolved, non-blank X_API_KEY, a presented key that is absent or differs *)
(* after trimming is answered 401 unauthorized/api_key_mismatch at the gate *)
(* and no upstream request is ever sent.                                    *)
C1_MismatchIs401 ==
    C1_Case => /\ sent = <<>>
               /\ ReachedProxyRequest => pc = "done" /\ Is401Mismatch

\* A presented key that carries surrounding blanks and still differs from the
\* padded configured key has been rejected.
C1_Witness ==
    /\ C1_Case
    /\ ReachedProxyRequest
    /\ pc = "done"
    /\ Is401Mismatch
    /\ req.headers["x-api-key"] = <<"a", "a">>
    /\ env.X_API_KEY = <<"a", " ">>

----------------------------------------------------------------------------
\* The request passes the parameter validation of its handler.
ValidationPasses ==
    /\ Validation(req.handler) = NoResponse
    /\ req.handler = "MarketplaceListingCreate" => ~CreateRaises
    /\ req.handler = "DatabaseSearch" => provided_keys \cap supported_params # {}

(* C2: on every route, once the handler's parameter validation has passed,  *)
(* a call made with key checking enabled and no X_API_KEY configured is     *)
(* answered 503 server_misconfigured/x_api_key_missing and no upstream      *)
(* request is sent.                                                         *)
C2_MissingKeyIs503 ==
    (CheckingEnabled /\ NoExpectedKey /\ ValidationPasses)
        => /\ sent = <<>>
           /\ pc = "done" => Is503KeyMissing

----------------------------------------------------------------------------
(* C3: a call to proxy_request made while X_API_KEY or DISCOGS_TOKEN begins *)
(* with the unresolved-secret prefix is answered 503 secrets_unresolved,    *)
(* whatever key the caller presented.                                       *)
C3_UnresolvedIs503 ==
    (ReachedProxyRequest /\ pc = "done" /\ (ExpectedKeyUnresolved \/ TokenUnresolved))
        => Is503SecretsUnresolved

----------------------------------------------------------------------------
(* Vocabulary of the retry properties. *)

\* The call is made through proxy_request with a method that is retried by
\* default and without allow_retry=False.
RetriedCall ==
    /\ req.handler \notin Inline
    /\ Upper(Method) \in {"GET", "HEAD"}
    /\ req.allow_retry # "False"

\* Both attempts end in a transport error.
BothAttemptsFailTransport ==
    upstream[1].kind \in TransportErrors /\ upstream[2].kind \in TransportErrors

\* The terminal response is the classification of transport error kind k.
SurfacesTransportError(k) ==
    /\ k = "timeout" => response.status = 504 /\ response.error = "timeout"
    /\ k = "request_error" => response.status = 502 /\ response.error = "bad_gateway"

----------------------------------------------------------------------------
(* C4: a GET/HEAD call through proxy_request whose attempts all end in a    *)
(* transport error sends exactly 2 upstream requests and then returns the   *)
(* classification of the second attempt's error: 504 timeout for a timeout, *)
(* 502 bad_gateway for another request error, whatever the first error was. *)
C4_TwoAttemptsThenLastError ==
    (RetriedCall /\ BothAttemptsFailTransport /\ sent # <<>>)
        => /\ Len(sent) <= 2
           /\ pc = "done" => /\ Len(sent) = 2
                             /\ SurfacesTransportError(upstream[2].kind)

\* A timeout followed by a connection error has been answered 502.
C4_Witness ==
    /\ RetriedCall
    /\ upstream[1].kind = "timeout"
    /\ upstream[2].kind = "request_error"
    /\ pc = "done"
    /\ Len(sent) = 2
    /\ response.status = 502
    /\ response.error = "bad_gateway"

----------------------------------------------------------------------------
(* C5, as claimed: such a call sleeps 0.25 s and then 0.50 s before the     *)
(* error is returned; in units of 0.25 s its waits are <<1, 2>>.            *)
C5_WaitsOneThenTwo ==
    (RetriedCall /\ BothAttemptsFailTransport /\ sent # <<>> /\ pc = "done")
        => waits = <<1, 2>>

(* C5, amended: such a call sleeps once, 0.25 s (0.25 x attempt 1), between *)
(* its two attempts, and not after the second; its waits are <<1>>.         *)
C5_SingleWait ==
    (RetriedCall /\ BothAttemptsFailTransport /\ sent # <<>>)
        => /\ pc \in {"sleep", "done"} \/ Len(sent) = 2 => waits = <<1>>
           /\ pc = "done" => waits = <<1>> /\ Len(sent) = 2

\* Two transport errors have been surfaced after one wait.
C5_Witness ==
    /\ RetriedCall
    /\ BothAttemptsFailTransport
    /\ pc = "done"
    /\ waits = <<1>>
    /\ response.status \in {502, 504}

----------------------------------------------------------------------------
\* The call is made through proxy_request with a non-idempotent method and no
\* allow_retry argument.
NonIdempotentCall ==
    /\ req.handler \notin Inline
    /\ Upper(Method) \in {"POST", "PUT", "PATCH", "DELETE"}
    /\ req.allow_retry = "None"

(* C6: a POST, PUT, PATCH or DELETE call through proxy_request without an   *)
(* allow_retry argument never has the retry flag set and never sends more   *)
(* than one upstream request: a transport error of the first attempt is     *)
(* classified at once as 504 or 502, without a wait.                        *)
C6_NonIdempotentNeverRetries ==
    NonIdempotentCall
        => /\ allow_retry # "True"
           /\ Len(sent) <= 1
           /\ waits = <<>>
           /\ (pc = "done" /\ sent # <<>> /\ upstream[1].kind \in TransportErrors)
                 => SurfacesTransportError(upstream[1].kind)

\* A PUT whose only attempt timed out has been answered 504, although the
\* second attempt would have succeeded.
C6_Witness ==
    /\ NonIdempotentCall
    /\ Upper(Method) = "PUT"
    /\ upstream[1].kind = "timeout"
    /\ upstream[2].kind = "response"
    /\ pc = "done"
    /\ Len(sent) = 1
    /\ response.status = 504

----------------------------------------------------------------------------
(* C7: in every handler, once an attempt of a call has received a response, *)
(* whatever its status, no further upstream request is sent for that call;  *)
(* a second request is sent only after the first attempt ended in a timeout *)
(* or another request error.                                                *)
C7_StatusNeverRetried ==
    /\ [][resp # NoResp => sent' = sent]_vars
    /\ [](Len(sent) >= 2 => upstream[1].kind \in {"timeout", "request_error"})

\* A retriable call answered 503 at its first attempt has ended after that
\* one attempt.
C7_Witness ==
    /\ Upper(Method) = "GET"
    /\ allow_retry = "True" \/ req.handler \in Inline
    /\ resp # NoResp
    /\ resp.status = 503
    /\ pc = "done"
    /\ Len(sent) = 1

----------------------------------------------------------------------------
\* The upstream has answered with a 5xx status.
UpstreamServerError == resp # NoResp /\ resp.status >= 500 /\ resp.status <= 599

(* C8: an upstream response with a status in 500..599 is answered with 502  *)
(* upstream_error, the upstream status kept in the body's upstream_status;  *)
(* the upstream 5xx status is not the status of the caller-facing response. *)
C8_ServerErrorIs502 ==
    (UpstreamServerError /\ pc = "done")
        => /\ response.status = 502
           /\ response.error = "upstream_error"
           /\ response.upstream_status = resp.status

\* An upstream 599 has been answered 502 upstream_error.
C8_Witness ==
    /\ UpstreamServerError
    /\ resp.status = 599
    /\ pc = "done"
    /\ response.status = 502
    /\ response.upstream_status = 599

----------------------------------------------------------------------------
\* The JSON text of an optional string: null for an absent one.
JsonField(v) == IF v = None THEN <<"null">> ELSE <<"\"">> \o v \o <<"\"">>

(* C9: an upstream 429 is answered with a 429 rate_limited body whose       *)
(* limit, remaining and reset are the JSON strings of the upstream          *)
(* X-Discogs-Ratelimit, X-Discogs-Ratelimit-Remaining and                   *)
(* X-Discogs-Ratelimit-Reset headers, and the JSON null for an absent one.  *)
C9_RateLimitMirrored ==
    (resp # NoResp /\ resp.status = 429 /\ pc = "done")
        => /\ response.status = 429
           /\ response.error = "rate_limited"
           /\ response.limit = JsonField(resp.headers["X-Discogs-Ratelimit"])
           /\ response.remaining = JsonField(resp.headers["X-Discogs-Ratelimit-Remaining"])
           /\ response.reset = JsonField(resp.headers["X-Discogs-Ratelimit-Reset"])

----------------------------------------------------------------------------
(* Vocabulary of the rewrite properties. *)

\* s starts with "https://api.discogs.com/" or "http://api.discogs.com/".
IsUpstreamUrl(s) ==
    StartsWith(s, UPSTREAM_HTTPS \o <<"/">>) \/ StartsWith(s, UPSTREAM_HTTP \o <<"/">>)

\* Some string value of the tree starts with an upstream URL prefix.
RECURSIVE HasUpstreamUrl(_)
HasUpstreamUrl(obj) ==
    IF obj.t = "dict" THEN \E i \in 1..Len(obj.v) : HasUpstreamUrl(obj.v[i].x)
    ELSE IF obj.t = "list" THEN \E i \in 1..Len(obj.v) : HasUpstreamUrl(obj.v[i])
    ELSE IF obj.t = "str" THEN IsUpstreamUrl(obj.v)
    ELSE FALSE

\* Every application after the first returned its argument, and the first
\* result holds no upstream URL.
RewriteSettled ==
    /\ \A i \in 2..Len(rw_results) : rw_results[i] = rw_results[i - 1]
    /\ rw_results # <<>> => ~HasUpstreamUrl(rw_results[1])

\* The gateway's own base, https://<host>/api, is not an upstream URL.
GatewayOffUpstream == ~IsUpstreamUrl(ProxyBase(rw_host))

----------------------------------------------------------------------------
(* C10, as claimed: for every JSON tree and every gateway host, _rewrite    *)
(* applied to a rewritten tree returns it unchanged, and a rewritten tree   *)
(* holds no string value that starts with the upstream URL prefix.          *)
C10_RewriteIdempotent == RewriteSettled

(* C10, amended: the same, for every gateway host whose base                *)
(* https://<host>/api does not itself start with https://api.discogs.com/.  *)
C10_RewriteIdempotentOffUpstream == GatewayOffUpstream => RewriteSettled

\* A list holding an upstream URL was changed by the first application and
\* returned unchanged by the second.
C10_Witness ==
    /\ GatewayOffUpstream
    /\ rw_data.t = "list"
    /\ HasUpstreamUrl(rw_data)
    /\ Len(rw_results) = 2
    /\ rw_results[1] # rw_data
    /\ rw_results[2] = rw_results[1]

----------------------------------------------------------------------------
(* Vocabulary of the body properties. *)

\* The upstream has answered 2xx with a JSON mimetype (the default when it
\* sends no Content-Type).
UpstreamJsonSuccess ==
    /\ resp # NoResp
    /\ resp.status >= 200
    /\ resp.status < 300
    /\ BeforeSemicolon(IF resp.headers["Content-Type"] = None THEN <<"application/json">>
                       ELSE resp.headers["Content-Type"]) = <<"application/json">>

\* resp.json() raises on the body.
ParseFails == resp.content.t = "raw"

\* The headers a response to this call carries after an upstream answer.
HeadersOfCall ==
    IF req.handler \in Inline THEN PropagatedHeadersInline(resp)
    ELSE PropagatedHeaders(resp, trace_id)

----------------------------------------------------------------------------
(* C11: when the upstream answers 2xx with a JSON mimetype and the body     *)
(* cannot be parsed for rewriting, the caller receives the upstream body    *)
(* unmodified, with the upstream status and the propagated headers, and     *)
(* never an error body.                                                     *)
C11_RewriteFailureFallsBack ==
    (UpstreamJsonSuccess /\ ParseFails /\ pc = "done")
        => /\ response.status = resp.status
           /\ response.body = resp.content
           /\ response.headers = HeadersOfCall
           /\ response.error = ""

\* proxy_request, with rewriting on, has forwarded an unparsable 200 body.
C11_Witness ==
    /\ UpstreamJsonSuccess
    /\ ParseFails
    /\ req.handler \notin Inline
    /\ FlagDefaultTrue("REWRITE_UPSTREAM_URLS")
    /\ pc = "done"
    /\ response.status = 200
    /\ response.body = JRaw

----------------------------------------------------------------------------
(* Vocabulary of the search properties. *)

\* The query string names at least one supported search parameter: a
\* supported name opens one of its &-separated pairs and ends there or at "=".
NamesSupportedParam ==
    \E i \in 1..Len(req.qs) :
        /\ <<req.qs[i]>> \in supported_params
        /\ i = 1 \/ req.qs[i - 1] = "&"
        /\ i = Len(req.qs) \/ req.qs[i + 1] \in {"=", "&"}

Is400NoSearchParams ==
    /\ response.status = 400
    /\ response.error = "invalid_request"
    /\ response.reason = "no_supported_search_params"

\* The key check and the token check of DatabaseSearch.main let the call on.
SearchAdmitted == inline_key_check = NoResponse /\ ~token_unresolved

----------------------------------------------------------------------------
----------------------------------------------------------------------------
(* Vocabulary of the validation properties. *)

ReleaseScoped == {"Releases", "PriceSuggestions", "CollectionAdd", "WantlistItemUpsert"}

\* The path parameter is missing, empty or holds something that is no digit.
NoDigitString(x) == x = None \/ x = <<>> \/ \E i \in 1..Len(x) : x[i] \notin {"1", "2"}

\* The path parameters the handler looks at before release_id are acceptable.
EarlierParamsValid ==
    /\ req.handler \in {"CollectionAdd", "WantlistItemUpsert"}
          => req.route_params["username"] \notin {None, <<>>}
    /\ req.handler = "CollectionAdd" => ~NoDigitString(req.route_params["folder_id"])

Is400ReleaseId ==
    /\ response.status = 400
    /\ response.error = "release_id must be an integer"

----------------------------------------------------------------------------
(* C13, as claimed: on a release-scoped route a release_id that is missing  *)
(* or no digit string is answered 400 "release_id must be an integer" and   *)
(* nothing is sent upstream, whatever the configuration and the key.        *)
C13_BadReleaseIdIs400 ==
    (req.handler \in ReleaseScoped /\ NoDigitString(req.route_params["release_id"]))
        => /\ sent = <<>>
           /\ pc = "done" => Is400ReleaseId

(* C13, amended: nothing is sent upstream and the answer is a 400; it is    *)
(* the release_id message when the parameters validated before release_id   *)
(* (username, then folder_id) are acceptable, and the message of the first  *)
(* unacceptable one of those otherwise.                                     *)
C13_BadReleaseIdIs400AfterEarlierParams ==
    (req.handler \in ReleaseScoped /\ NoDigitString(req.route_params["release_id"]))
        => /\ sent = <<>>
           /\ pc = "done" => response.status = 400
           /\ (pc = "done" /\ EarlierParamsValid) => Is400ReleaseId
           /\ (pc = "done" /\ ~EarlierParamsValid)
                 => response.error \in {"username is required", "folder_id must be an integer"}

\* CollectionAdd, with no X_API_KEY configured and no key presented, has
\* rejected release_id "a".
C13_Witness ==
    /\ req.handler = "CollectionAdd"
    /\ req.route_params["release_id"] = <<"a">>
    /\ EarlierParamsValid
    /\ env.X_API_KEY = None
    /\ req.headers["x-api-key"] = None
    /\ pc = "done"
    /\ Is400ReleaseId
    /\ sent = <<>>

----------------------------------------------------------------------------
(* Vocabulary of the error-body properties. *)

\* The terminal response has an error body.
HasErrorBody == pc = "done" /\ response.error # ""

----------------------------------------------------------------------------
(* C14: every terminal response of proxy_request that has an error body     *)
(* (401, 503, 404, 429, 502, unexpected status, 504, 500) holds, in its     *)
(* trace_id field, the trace id generated for the call.                     *)
C14_ErrorsCarryTraceId ==
    (ReachedProxyRequest /\ HasErrorBody)
        => /\ response.trace_id # None
           /\ response.trace_id = trace_id

----------------------------------------------------------------------------
(* C15: in every handler a response holds a detail text only if the         *)
(* DEBUG_ERRORS flag is enabled ("true" in any letter case); with the flag  *)
(* unset or set to anything else no response of any kind has a detail.      *)
C15_DetailOnlyWhenDebug ==
    response.detail # None
        => env.DEBUG_ERRORS # None /\ Lower(env.DEBUG_ERRORS) = <<"true">>

\* With DEBUG_ERRORS unset, a call whose attempts raised has been answered
\* with an error body that has no detail.
C15_Witness ==
    /\ env.DEBUG_ERRORS = None
    /\ upstream[1].kind # "response"
    /\ pc = "done"
    /\ response.status \in {500, 502, 504}
    /\ response.detail = None

----------------------------------------------------------------------------
(* C16: every caller response produced after an upstream response, whatever *)
(* its status, carries each allow-listed upstream header (Link, the four    *)
(* rate-limit headers, ETag) that the upstream sent with a value, unchanged;*)
(* carries the call's trace id as X-Trace-Id; and echoes X-Client-Trace-Id  *)
(* and X-Operation-Hash when the inbound request had them.                  *)
C16_HeadersPropagated ==
    (resp # NoResp /\ pc = "done")
        => /\ \A h \in AllowListed :
                Truthy(resp.headers[h]) => response.headers[h] = resp.headers[h]
           /\ response.headers["X-Trace-Id"] # None
           /\ response.headers["X-Trace-Id"] = trace_id
           /\ \A h \in {"X-Client-Trace-Id", "X-Operation-Hash"} :
                Truthy(req.headers[h]) => response.headers[h] = req.headers[h]

----------------------------------------------------------------------------
(* Vocabulary of the token properties. *)

\* The caller-key check of the handler lets the call on.
GatePasses ==
    IF req.handler \in Inline THEN inline_key_check = NoResponse
    ELSE _client_key_check = NoResponse

\* Request i was sent with an Authorization header built from an unresolved
\* secret reference.
SentUnresolvedToken(i) ==
    /\ sent[i].authorization # None
    /\ StartsWith(sent[i].authorization, <<"Discogs token=">> \o KV_PREFIX)

----------------------------------------------------------------------------
(* C17: in every handler, while DISCOGS_TOKEN is an unresolved secret       *)
(* reference no upstream request is ever sent, so none carries an           *)
(* Authorization header built from the reference; and a call that has       *)
(* passed the handler's parameter validation and caller-key check is        *)
(* answered 503 secrets_unresolved.                                         *)
C17_NoAttemptWithUnresolvedToken ==
    /\ TokenUnresolved => sent = <<>>
    /\ \A i \in 1..Len(sent) : ~SentUnresolvedToken(i)
    /\ (TokenUnresolved /\ Validation(req.handler) = NoResponse /\ GatePasses /\ pc = "done")
          => Is503SecretsUnresolved

\* A call with the right key and an unresolved token has been stopped behind
\* the gate of proxy_request.
C17_Witness ==
    /\ TokenUnresolved
    /\ req.handler = "proxy_request"
    /\ req.headers["x-api-key"] = <<"a">>
    /\ env.X_API_KEY = <<"a">>
    /\ Passed("gate")
    /\ Passed("token")
    /\ pc = "done"
    /\ Is503SecretsUnresolved
    /\ sent = <<>>

----------------------------------------------------------------------------
(* Vocabulary of the equivalence properties. *)

\* What proxy_request(req, "GET", path) returns under the call's
\* configuration, request and upstream outcomes: its gate, its token check,
\* its two attempts (GET is retried) and its translation.
ProxyRequestGetOutcome ==
    IF _client_key_check # NoResponse THEN _client_key_check
    ELSE IF token_unresolved
    THEN ReasonResponse(503, "secrets_unresolved", "DISCOGS_TOKEN")
    ELSE IF upstream[1].kind = "response" THEN Translate(upstream[1], NewTraceId)
    ELSE IF upstream[1].kind \notin TransportErrors
    THEN Classify(upstream[1].kind, NewTraceId)
    ELSE IF upstream[2].kind = "response" THEN Translate(upstream[2], NewTraceId)
    ELSE Classify(upstream[2].kind, NewTraceId)

\* The handler's own parameter validation lets the request on.
InlineValidationPasses ==
    /\ req.handler = "Releases" => ~NoDigitString(req.route_params["release_id"])
    /\ req.handler = "DatabaseSearch" => NamesSupportedParam

----------------------------------------------------------------------------
(* C18: once its parameter validation has passed, the Releases handler      *)
(* returns what proxy_request(GET, /releases/{id}) returns, and the         *)
(* DatabaseSearch handler what proxy_request(GET, /database/search)         *)
(* returns, for the same configuration, request and upstream outcomes:      *)
(* the same status, error body, headers, mimetype and body.                 *)
C18_InlineHandlersAreShims ==
    (req.handler \in Inline /\ InlineValidationPasses /\ pc = "done")
        => response = ProxyRequestGetOutcome

\* The outcome function agrees with the steps of proxy_request itself.
ProxyRequestGetOutcomeAgrees ==
    (req.handler \notin Inline /\ Passed("gate") /\ pc = "done"
        /\ Upper(Method) = "GET" /\ req.allow_retry # "False")
        => response = ProxyRequestGetOutcome

----------------------------------------------------------------------------
(* C19: every call that enters proxy_request ends with one caller-facing    *)
(* response, whatever its attempts do (answer with any status, time out,    *)
(* raise another request error or raise anything else, which is answered    *)
(* 500 internal_error); once returned, the response does not change.        *)
C19_AlwaysAnswers ==
    /\ [](req.handler \notin Inline /\ pc = "gate"
            => <>(pc = "done" /\ response # NoResponse))
    /\ [](upstream[1].kind = "exception" /\ sent # <<>> /\ pc \in {"done", "fault"}
            => pc = "done" /\ response.status = 500 /\ response.error = "internal_error")
    /\ [][pc = "done" => response' = response /\ pc' = pc]_vars

\* A PUT whose attempt raised an unanticipated exception has been answered
\* 500 internal_error.
C19_Witness ==
    /\ req.handler = "proxy_request"
    /\ Upper(Method) = "PUT"
    /\ upstream[1].kind = "exception"
    /\ pc = "done"
    /\ Len(sent) = 1
    /\ response.status = 500
    /\ response.error = "internal_error"

----------------------------------------------------------------------------
(* Vocabulary of the ordering properties.  trail is the sequence of the     *)
(* positions a call has left: start is the route handler's parameter        *)
(* validation and params that of DatabaseSearch, precheck and token are the *)
(* upstream-token checks, gate is the caller-key check.                     *)

\* The stage of each position in the claimed order: validation, gate,
\* attempts, translation, telemetry.
ClaimedStage(p) ==
    IF p \in {"start", "params"} THEN 1
    ELSE IF p \in {"precheck", "gate", "token"} THEN 2
    ELSE IF p \in {"build", "loop", "inflight", "sleep"} THEN 3
    ELSE IF p = "translate" THEN 4
    ELSE 5

\* The stage of each position in the order of the code.
CodeStage(p) ==
    IF p = "start" THEN 1
    ELSE IF p = "precheck" THEN 2
    ELSE IF p = "gate" THEN 3
    ELSE IF p = "token" THEN 4
    ELSE IF p = "params" THEN 5
    ELSE IF p \in {"build", "loop", "inflight", "sleep"} THEN 6
    ELSE IF p = "telemetry" THEN 7
    ELSE 8

\* A parameter-validation error: a 400, or the 404 of an unknown sub-path.
IsValidationError ==
    /\ pc = "done"
    /\ resp = NoResp
    /\ response.status \in {400, 404}

----------------------------------------------------------------------------
----------------------------------------------------------------------------
(* Vocabulary of the telemetry properties. *)

\* The call through proxy_request has returned its response.
ProxyRequestReturned == ReachedProxyRequest /\ pc = "done"

\* The terminal paths of proxy_request that receive no upstream response.
EndsWithoutUpstreamResponse == ProxyRequestReturned /\ resp = NoResp

----------------------------------------------------------------------------
(* C21: a call handled by proxy_request logs exactly one discogs_proxy_call *)
(* event, on every terminal path: gate rejection, unresolved secret,        *)
(* upstream response of any status, transport error after the retries,      *)
(* internal error.  No call logs more than one.                             *)
C21_OneEventPerCall ==
    /\ Len(telemetry) <= 1
    /\ ProxyRequestReturned => Len(telemetry) = 1

----------------------------------------------------------------------------
(* C22: logging the telemetry event never affects the response of           *)
(* proxy_request.  Whether logger.info raises or returns, a call that       *)
(* received an upstream response returns the translation of that response;  *)
(* a failure to log is swallowed and is never answered as an error.         *)
C22_EmissionNeverAffectsResponse ==
    (ProxyRequestReturned /\ resp # NoResp)
        => /\ response = Translate(resp, trace_id)
           /\ response.error # "internal_error"

----------------------------------------------------------------------------
(* Vocabulary of the translation table. *)

TableRows == {"2xx", "304", "404", "429", "5xx", "other"}

\* The row of the reference table under which a status falls.
ReferenceRow(status) ==
    CASE status \in 200..299 -> "2xx"
      [] status = 304 -> "304"
      [] status = 404 -> "404"
      [] status = 429 -> "429"
      [] status \in 500..599 -> "5xx"
      [] OTHER -> "other"

\* The caller-facing response is the outcome the table gives in that row.
IsOutcomeOf(row) ==
    CASE row = "2xx" ->
            /\ response.status = resp.status
            /\ response.status \in 200..299
            /\ response.error = ""
      [] row = "304" ->
            /\ response.status = 304
            /\ response.error = ""
            /\ response.body = NoBody
            /\ response.mimetype = None
            /\ response.headers["X-Trace-Id"] = trace_id
      [] row = "404" ->
            /\ response.status = 404
            /\ response.error = "not_found"
      [] row = "429" ->
            /\ response.status = 429
            /\ response.error = "rate_limited"
      [] row = "5xx" ->
            /\ response.status = 502
            /\ response.error = "upstream_error"
            /\ response.upstream_status = resp.status
      [] OTHER ->
            /\ response.status = resp.status
            /\ response.error = "unexpected_status"
            /\ response.upstream_status = resp.status

\* The URL rewrite applies to the upstream answer: a 2xx with a JSON mimetype
\* whose body parses, with REWRITE_UPSTREAM_URLS enabled.
RewriteApplies ==
    /\ UpstreamJsonSuccess
    /\ ~ParseFails
    /\ (env.REWRITE_UPSTREAM_URLS = None \/ Lower(env.REWRITE_UPSTREAM_URLS) = <<"true">>)

----------------------------------------------------------------------------
(* C23, as claimed: the translation of proxy_request is a total function of *)
(* the upstream status that follows the reference table.  A call that       *)
(* received a response returns the outcome of exactly one row, the row of   *)
(* its status: 200..299 the same status with the upstream body, 304 a 304   *)
(* with headers and no body, 404 not_found, 429 rate_limited, 500..599 a    *)
(* 502 upstream_error, anything else unexpected_status with the original    *)
(* status.                                                                  *)
C23_TranslationAsClaimed ==
    (ProxyRequestReturned /\ resp # NoResp)
        => /\ response # NoResponse
           /\ \A row \in TableRows : IsOutcomeOf(row) <=> row = ReferenceRow(resp.status)
           /\ ReferenceRow(resp.status) = "2xx" => response.body = resp.content

(* C23, amended: as claimed, except that the body of the 200..299 row is    *)
(* the upstream body with its upstream URLs rewritten when the rewrite      *)
(* applies (JSON mimetype, body that parses, rewrite enabled), and the      *)
(* upstream body itself otherwise.                                          *)
C23_TranslationFollowsTable ==
    (ProxyRequestReturned /\ resp # NoResp)
        => /\ response # NoResponse
           /\ \A row \in TableRows : IsOutcomeOf(row) <=> row = ReferenceRow(resp.status)
           /\ ReferenceRow(resp.status) = "2xx"
                 => response.body = IF RewriteApplies
                                    THEN _rewrite(resp.content, ProxyBase(Header("host")))
                                    ELSE resp.content

\* A 304 answered to the retry of a timed-out attempt is passed on as 304.
C23_Witness ==
    /\ ProxyRequestReturned
    /\ Len(sent) = 2
    /\ resp.status = 304
    /\ response.status = 304
    /\ response.body = NoBody

----------------------------------------------------------------------------
(* Vocabulary of the concurrency property. *)

\* Every call of the process: the running one and the parked ones.
AllCalls == {Locals} \cup {parked[i] : i \in 1..Len(parked)}

\* The attempts of call c are sequential: at most one is in flight, at most
\* two were issued, none is in flight while the call sleeps or is about to
\* issue one, and the second was issued only after the first had raised a
\* transport error and the backoff sleep had returned.
SequentialAttempts(c) ==
    /\ c.inflight <= 1
    /\ Len(c.sent) <= 2
    /\ c.pc \in {"loop", "sleep"} => c.inflight = 0
    /\ Len(c.sent) = 2
          => /\ c.upstream[1].kind \in {"timeout", "request_error"}
             /\ Len(c.waits) = 1
    /\ \A j \in 1..Len(c.trail) :
          (c.trail[j] = "loop" /\ \E i \in 1..(j - 1) : c.trail[i] = "loop")
              => /\ j > 2
                 /\ c.trail[j - 1] = "sleep"
                 /\ c.trail[j - 2] = "inflight"

----------------------------------------------------------------------------
(* C24: in every state, for every call the process is handling, at most one *)
(* upstream attempt of the call is in flight and at most two have been      *)
(* issued; the second starts only after the first has ended in a transport  *)
(* error and the backoff sleep has elapsed.  This holds for each call when  *)
(* several calls run at the same time.                                      *)
C24_AttemptsAreSequential == \A c \in AllCalls : SequentialAttempts(c)

\* The retry of one call and the first attempt of another are in flight at
\* the same time.
C24_Witness ==
    /\ pc = "inflight"
    /\ Len(sent) = 2
    /\ inflight = 1
    /\ \E i \in 1..Len(parked) :
          /\ parked[i].pc = "inflight"
          /\ parked[i].inflight = 1
          /\ Len(parked[i].sent) = 1

----------------------------------------------------------------------------
(* Vocabulary of the rewrite's frame. *)

\* The path of an upstream URL: what follows the scheme and the host.
PathOf(s) == SubSeq(s, 3, Len(s))

\* Tree out is tree in with every string value that is an upstream URL
\* replaced by base followed by the URL's path, and nothing else changed:
\* same kinds, same lengths, same keys in the same order, same scalars.
RECURSIVE RewrittenFrom(_, _, _)
RewrittenFrom(out, in, base) ==
    CASE in.t = "str" ->
            /\ out.t = "str"
            /\ out.v = IF IsUpstreamUrl(in.v) THEN base \o PathOf(in.v) ELSE in.v
      [] in.t = "list" ->
            /\ out.t = "list"
            /\ Len(out.v) = Len(in.v)
            /\ \A i \in 1..Len(in.v) : RewrittenFrom(out.v[i], in.v[i], base)
      [] in.t = "dict" ->
            /\ out.t = "dict"
            /\ Len(out.v) = Len(in.v)
            /\ \A i \in 1..Len(in.v) :
                  /\ out.v[i].k = in.v[i].k
                  /\ RewrittenFrom(out.v[i].x, in.v[i].x, base)
      [] OTHER -> out = in

\* The gateway base of the call, https://<host>/api.
GatewayBase == <<"https://">> \o (IF req.headers["host"] = None THEN <<"None">>
                                  ELSE req.headers["host"]) \o <<"/", "api">>

----------------------------------------------------------------------------
(* C25: for a 2xx JSON response with the URL rewrite enabled, the body      *)
(* proxy_request returns is the parsed upstream body in which every string  *)
(* that is a dict value or a list element, at any depth, and that is an     *)
(* absolute upstream URL in its https:// or http:// form has been replaced  *)
(* by the gateway base https://<host>/api followed by the same path;        *)
(* dict keys, non-string scalars, other strings and the shape and order of  *)
(* the tree are unchanged.                                                  *)
C25_RewriteFrame ==
    (ProxyRequestReturned /\ RewriteApplies)
        => RewrittenFrom(response.body, resp.content, GatewayBase)

\* A body with an upstream URL as a key and upstream URLs two levels down
\* has been returned with the values rewritten and the key kept.
C25_Witness ==
    /\ ProxyRequestReturned
    /\ RewriteApplies
    /\ resp.content = JDict(<<[k |-> ReleaseUrl, x |-> JList(<<PlainContent>>)]>>)
    /\ response.body # resp.content
    /\ response.body.v[1].k = ReleaseUrl

----------------------------------------------------------------------------
(* Vocabulary of the query-alias property. *)

\* The query an upstream request carries, as a map from key to value:
\* its params, or what its URL spells after the "?".
SentQuery(u) == IF u.qs = <<>> THEN u.params ELSE ParamsOf(u.qs)

\* The inbound query has the alias `query` and not the canonical `q`.
AliasOnly == "query" \in DOMAIN req.params /\ "q" \notin DOMAIN req.params

\* The upstream query u is the inbound query after the alias pass.
AliasApplied(u) ==
    LET query == SentQuery(u)
    IN /\ AliasOnly => /\ "q" \in DOMAIN query
                       /\ query["q"] = req.params["query"]
                       /\ "query" \notin DOMAIN query
       /\ "q" \in DOMAIN req.params => /\ "q" \in DOMAIN query
                                       /\ query["q"] = req.params["q"]

\* The call got past the key check and the token check of its handler.
Admitted == GatePasses /\ ~TokenUnresolved

\* The path parameters and the body pass the checks of the route.
RouteParamsValid ==
    /\ Validation(req.handler) = NoResponse
    /\ req.handler = "MarketplaceListingCreate" => ~CreateRaises

----------------------------------------------------------------------------
(* C26: the query alias pass is applied to the upstream call of every       *)
(* route, /database/search included.  With `query` and no `q` inbound, the  *)
(* upstream query carries q with that value and no `query`, so that a       *)
(* search called with only query=<text> goes upstream as q=<text>; with     *)
(* both inbound, q keeps its value; and the pass applied twice gives the    *)
(* same query as applied once.                                              *)
C26_AliasOnEveryRoute ==
    /\ QueryAlias(QueryAlias(req.params)) = QueryAlias(req.params)
    /\ \A i \in 1..Len(sent) : AliasApplied(sent[i])
    /\ (AliasOnly /\ Admitted /\ RouteParamsValid /\ pc = "done") => sent # <<>>

\* The same for the routes that delegate to proxy_request: it holds.
AliasOnDelegatingRoutes ==
    req.handler \notin Inline
        => /\ QueryAlias(QueryAlias(req.params)) = QueryAlias(req.params)
           /\ \A i \in 1..Len(sent) : AliasApplied(sent[i])
           /\ (AliasOnly /\ Admitted /\ RouteParamsValid /\ pc = "done") => sent # <<>>

====
